---- MODULE Spec2Model ----
(***************************************************************************)
(* Model of data_import/import_oca.py: the import of OCA schema documents  *)
(* into a property graph (Schema, Attribute and Meta nodes, HAS_ATTRIBUTE  *)
(* and HAS_META edges) by a sequence of Cypher MERGE/SET statements.       *)
(***************************************************************************)
EXTENDS Integers, Sequences, FiniteSets, TLC

VARIABLES
    graph,        \* the Neo4j graph: nodes per label, edges, next internal node id
    uuid_count,   \* number of uuid.uuid4() values drawn so far
    pc,           \* position of main(): "loop" or "done"
    n_files,      \* len(json_files) of the batch main() processes
    results,      \* per processed file: the document, its outcome, what was written
    fold_kind,    \* which overlay is folded: "information" or "entry"
    fold_in,      \* the overlay sequence being folded
    fold_i,       \* number of overlay entries already folded
    fold_acc,     \* attribute_descriptions / controlled_vocabularies so far
    w_doc,        \* concurrent import: the document of each worker
    w_stmts,      \* concurrent import: the statements each worker will run
    w_pc,         \* concurrent import: statements each worker has run
    w_start,      \* concurrent import: the graph both workers started from
    writers       \* concurrent import: who wrote each node and edge

vars == <<graph, uuid_count, pc, n_files, results, fold_kind, fold_in, fold_i,
          fold_acc, w_doc, w_stmts, w_pc, w_start, writers>>

(***************************************************************************)
(* Values.  Every JSON value and every node property is a tagged tuple.    *)
(***************************************************************************)
\* Python None / JSON null / an absent Neo4j property (SET p = null removes p)
Null == <<"null">>
\* a string value
Str(s) == <<"str", s>>
\* a list stored as a Neo4j array property
List(s) == <<"list", s>>
\* json.dumps(x): the serialized text of x, a scalar distinct from x itself
Dumps(x) == <<"json", x>>
\* str(uuid.uuid4()): the n-th fresh identifier
Uuid(n) == <<"uuid", n>>
\* a key absent from a mapping
Missing == <<"missing">>

\* Python truthiness of a scalar document value
Truthy(v) == v \notin {Null, Missing, Str("")}

\* dict.get(key, default) on a document field that is Missing when absent
GetOr(v, default) == IF v = Missing THEN default ELSE v

\* dict.get(k) on a mapping of attribute names: the value, or None
MapGet(m, k) == IF k \in DOMAIN m THEN m[k] ELSE Null

(***************************************************************************)
(* Documents.  A document is the parsed JSON file:                         *)
(*   file          the file's base name without ".json" (schema_name)      *)
(*   d             the top-level id, Null when absent                      *)
(*   type          the top-level type, Missing when absent                 *)
(*   capture_base  [shape, d, attrs_shape, attributes]; shape "str" is a   *)
(*                 capture_base that is a string; attrs_shape "seq" is an  *)
(*                 attributes value that is a list; attributes is the      *)
(*                 mapping in document order, a sequence of [name, type]   *)
(*   unit, entry_code, format   [shape, val]: "missing", "map" (val is the *)
(*                 inner attribute mapping), "empty" (an empty list) or    *)
(*                 "list" (a non-empty list where a mapping is expected)   *)
(*   information, entry, meta   [shape, val]: "missing", "seq" (val is the *)
(*                 sequence of mappings) or "scalars" (a non-empty         *)
(*                 sequence of strings where mappings are expected)        *)
(*   adc           extensions.adc: capture base id -> the ordering overlay *)
(*                 [attribute_ordering, entry_code_ordering], each empty   *)
(*                 when the entry does not carry it                        *)
(***************************************************************************)
NoSection == [shape |-> "missing", val |-> <<>>]

MapSection(m) == [shape |-> "map", val |-> m]

SeqSection(s) == [shape |-> "seq", val |-> s]

\* a non-empty list where a mapping is expected
BadMapSection == [shape |-> "list", val |-> <<>>]

\* a non-empty sequence whose elements are strings, not mappings
BadSeqSection == [shape |-> "scalars", val |-> <<>>]

\* an empty list where a mapping is expected
EmptyListSection == [shape |-> "empty", val |-> <<>>]

CaptureBase(id, attributes) ==
    [shape |-> "map", d |-> id, attrs_shape |-> "map", attributes |-> attributes]

Attr(name, type) == [name |-> name, type |-> Str(type)]

Overlay(language, attrs) == [language |-> language, attrs |-> attrs]

Meta(name, description, language) ==
    [name |-> name, description |-> description, language |-> language]

Ordering(attribute_ordering, entry_code_ordering) ==
    [attribute_ordering |-> attribute_ordering,
     entry_code_ordering |-> entry_code_ordering]

\* a document with a capture base and no overlays, no extensions
PlainDoc(file, id, cbid, attributes) ==
    [file |-> file, d |-> id, type |-> Missing,
     capture_base |-> CaptureBase(cbid, attributes),
     unit |-> NoSection, information |-> NoSection, entry |-> NoSection,
     entry_code |-> NoSection, format |-> NoSection, meta |-> NoSection,
     adc |-> <<>>]

(***************************************************************************)
(* Normalisation: lines 47-110 of import_oca_package.                      *)
(***************************************************************************)
\* a schema id that ignores the document's own id
SchemaIdAlwaysFresh(doc, fresh) == fresh

\* schema_id = data.get("d") or str(uuid.uuid4())
SchemaIdOf(doc, fresh) == IF Truthy(doc.d) THEN doc.d ELSE fresh

\* x = overlays.get(k, {}); x.get(inner, {}) if x else {}
\* a non-empty list has no .get: AttributeError
MapOverlayRaises(ov) == ov.shape = "list"

MapOverlay(ov) == IF ov.shape = "map" THEN ov.val ELSE <<>>

\* for info in overlays.get(k, []): info.get(...)
\* a string element has no .get: AttributeError
SeqOverlayRaises(ov) == ov.shape = "scalars"

SeqOverlay(ov) == IF ov.shape = "seq" THEN ov.val ELSE <<>>

\* a fold that keeps the first value of a language: setdefault(lang, desc)
FoldStepFirstWins(acc, entry) ==
    LET lang == GetOr(entry.language, Str("unknown"))
        attrs == DOMAIN entry.attrs
    IN [a \in (DOMAIN acc) \cup attrs |->
          IF a \in attrs
          THEN LET old == IF a \in DOMAIN acc THEN acc[a] ELSE <<>>
               IN [l \in (DOMAIN old) \cup {lang} |->
                     IF l \in DOMAIN old THEN old[l] ELSE entry.attrs[a]]
          ELSE acc[a]]

\* one iteration of the folding loop over a language-tagged overlay entry:
\*   lang = info.get("language", "unknown")
\*   for attr, desc in attr_info.items():
\*       acc.setdefault(attr, {})[lang] = desc
FoldStep(acc, entry) ==
    LET lang == GetOr(entry.language, Str("unknown"))
        attrs == DOMAIN entry.attrs
    IN [a \in (DOMAIN acc) \cup attrs |->
          IF a \in attrs
          THEN LET old == IF a \in DOMAIN acc THEN acc[a] ELSE <<>>
               IN [l \in (DOMAIN old) \cup {lang} |->
                     IF l = lang THEN entry.attrs[a] ELSE old[l]]
          ELSE acc[a]]

RECURSIVE FoldFrom(_, _, _)
FoldFrom(acc, entries, i) ==
    IF i > Len(entries) THEN acc
    ELSE FoldFrom(FoldStep(acc, entries[i]), entries, i + 1)

\* attribute_descriptions / controlled_vocabularies of an overlay sequence
Fold(entries) == FoldFrom(<<>>, entries, 1)

\* ordering_data: {} unless capture_base_id is a key of extensions.adc
OrderingData(doc) ==
    LET cbid == doc.capture_base.d
    IN IF cbid \in DOMAIN doc.adc
       THEN [attribute_ordering |-> doc.adc[cbid].attribute_ordering,
             entry_code_ordering |-> doc.adc[cbid].entry_code_ordering]
       ELSE <<>>

\* an exception raised before the first statement is issued
NormalizeRaises(doc) ==
    \/ doc.capture_base.shape = "str"
    \/ MapOverlayRaises(doc.unit)
    \/ SeqOverlayRaises(doc.information)
    \/ SeqOverlayRaises(doc.entry)
    \/ MapOverlayRaises(doc.entry_code)
    \/ MapOverlayRaises(doc.format)

(***************************************************************************)
(* Emission: the statements of lines 115-193, in order.                    *)
(***************************************************************************)
SchemaStmt(doc, sid) ==
    [op |-> "schema", schema_id |-> sid, schema_name |-> Str(doc.file),
     capture_base_id |-> doc.capture_base.d,
     schema_type |-> GetOr(doc.type, Str("oca_package/1.0"))]

\* json.dumps(m.get(name)) if m.get(name) else None, m a folded overlay
DumpsFolded(m, name) ==
    IF name \in DOMAIN m /\ DOMAIN m[name] # {} THEN Dumps(m[name]) ELSE Null

\* json.dumps(codes) if codes else None, codes a sequence
DumpsCodes(m, name) ==
    IF name \in DOMAIN m /\ Len(m[name]) > 0 THEN Dumps(m[name]) ELSE Null

AttributeStmt(doc, a, sid) ==
    [op |-> "attribute", attr_name |-> a.name, attr_type |-> a.type,
     attr_unit |-> MapGet(MapOverlay(doc.unit), a.name),
     attr_description |-> DumpsFolded(Fold(SeqOverlay(doc.information)), a.name),
     attr_format |-> MapGet(MapOverlay(doc.format), a.name),
     attr_vocabulary |-> DumpsFolded(Fold(SeqOverlay(doc.entry)), a.name),
     attr_codes |-> DumpsCodes(MapOverlay(doc.entry_code), a.name),
     schema_id |-> sid]

\* only the attributes that have a unit are enumerated
AttributeStmtsWithUnit(doc, sid) ==
    LET hasUnit(a) == a.name \in DOMAIN MapOverlay(doc.unit)
        kept == SelectSeq(doc.capture_base.attributes, hasUnit)
    IN [i \in 1..Len(kept) |-> AttributeStmt(doc, kept[i], sid)]

\* for attr_name, attr_type in attributes.items()
AttributeStmts(doc, sid) ==
    [i \in 1..Len(doc.capture_base.attributes) |->
        AttributeStmt(doc, doc.capture_base.attributes[i], sid)]

MetaStmt(m, sid) ==
    [op |-> "meta", meta_name |-> m.name, meta_desc |-> m.description,
     meta_language |-> GetOr(m.language, Str("unknown")), schema_id |-> sid]

\* for meta in meta_overlays: if meta_name: session.run(...)
MetaKept(m) == Truthy(m.name)

MetaStmts(doc, sid) ==
    LET kept == SelectSeq(SeqOverlay(doc.meta), MetaKept)
    IN [i \in 1..Len(kept) |-> MetaStmt(kept[i], sid)]

\* if ordering_data: a dict is true when it has a key
OrderingIssued(doc) == DOMAIN OrderingData(doc) # {}

OrderingStmts(doc, sid) ==
    IF OrderingIssued(doc)
    THEN << [op |-> "ordering", schema_id |-> sid,
             attribute_ordering |-> List(OrderingData(doc).attribute_ordering),
             entry_code_ordering |-> Dumps(OrderingData(doc).entry_code_ordering)] >>
    ELSE <<>>

\* The statements import_oca_package issues for doc, and whether it raises
\* an exception of its own (not a write failure) and where.
Emit(doc, fresh) ==
    LET sid == SchemaIdOf(doc, fresh)
    IN IF NormalizeRaises(doc)
       THEN [stmts |-> <<>>, raised |-> TRUE]
       ELSE IF doc.capture_base.attrs_shape = "seq"
       THEN \* attributes.items() on a list, after the Schema statement
            [stmts |-> <<SchemaStmt(doc, sid)>>, raised |-> TRUE]
       ELSE IF SeqOverlayRaises(doc.meta)
       THEN \* meta.get on a string, after the Attribute statements
            [stmts |-> <<SchemaStmt(doc, sid)>> \o AttributeStmts(doc, sid),
             raised |-> TRUE]
       ELSE [stmts |-> <<SchemaStmt(doc, sid)>> \o AttributeStmts(doc, sid)
                        \o MetaStmts(doc, sid) \o OrderingStmts(doc, sid),
             raised |-> FALSE]

(***************************************************************************)
(* The graph store.  A node has an internal id (nid) besides its           *)
(* properties; a property that was never set, or was set to null, is Null. *)
(***************************************************************************)
EmptyGraph == [schema |-> {}, attribute |-> {}, meta |-> {}, edges |-> {}, next |-> 1]

Edge(from, type, to) == [from |-> from, type |-> type, to |-> to]

\* MERGE (s:Schema {id: $schema_id}): the nodes the pattern matches
SchemaMatch(g, schema_id) == {s \in g.schema : s.id = schema_id}

\* CREATE instead of MERGE: no existing Attribute node is ever matched
AttributeMatchNone(g, attr_name) == {}

\* MERGE (a:Attribute {name: $attr_name})
AttributeMatch(g, attr_name) == {a \in g.attribute : a.name = attr_name}

\* CREATE instead of MERGE: no existing Meta node is ever matched
MetaMatchNone(g, st) == {}

\* a Meta match that leaves the schema id out of the key
MetaMatchUnscoped(g, st) ==
    {m \in g.meta : m.name = st.meta_name /\ m.language = st.meta_language}

\* MERGE (m:Meta {name: $meta_name, schema_id: $schema_id, language: $meta_language})
MetaMatch(g, st) ==
    {m \in g.meta : /\ m.name = st.meta_name
                    /\ m.schema_id = st.schema_id
                    /\ m.language = st.meta_language}

\* an edge source that matches every Schema node: MATCH (s:Schema)
EdgeSourcesAll(g, schema_id) == g.schema

\* WITH a MATCH (s:Schema {id: $schema_id}): the sources of the merged edge
EdgeSources(g, schema_id) == SchemaMatch(g, schema_id)

\* MERGE (s:Schema {id}) SET s.name, s.displayName, s.capture_base_id, s.type
ApplySchema(g, st) ==
    LET matched == SchemaMatch(g, st.schema_id)
        created == [nid |-> g.next, id |-> st.schema_id, name |-> Null,
                    displayName |-> Null, capture_base_id |-> Null, type |-> Null,
                    attribute_ordering |-> Null, entry_code_ordering |-> Null]
        bound == IF matched = {} THEN {created} ELSE matched
        set(s) == [s EXCEPT !.name = st.schema_name,
                            !.displayName = st.schema_name,
                            !.capture_base_id = st.capture_base_id,
                            !.type = st.schema_type]
    IN [g EXCEPT !.schema = {set(s) : s \in bound} \cup (g.schema \ matched),
                 !.next = IF matched = {} THEN g.next + 1 ELSE g.next]

\* MERGE (a:Attribute {name}) SET a.type, ..., a.codes
\* WITH a MATCH (s:Schema {id}) MERGE (s)-[:HAS_ATTRIBUTE]->(a)
ApplyAttribute(g, st) ==
    LET matched == AttributeMatch(g, st.attr_name)
        created == [nid |-> g.next, name |-> st.attr_name, type |-> Null,
                    unit |-> Null, description |-> Null, format |-> Null,
                    vocabulary |-> Null, codes |-> Null]
        bound == IF matched = {} THEN {created} ELSE matched
        set(a) == [a EXCEPT !.type = st.attr_type,
                            !.unit = st.attr_unit,
                            !.description = st.attr_description,
                            !.format = st.attr_format,
                            !.vocabulary = st.attr_vocabulary,
                            !.codes = st.attr_codes]
    IN [g EXCEPT !.attribute = {set(a) : a \in bound} \cup (g.attribute \ matched),
                 !.edges = g.edges \cup
                     {Edge(s.nid, "HAS_ATTRIBUTE", a.nid) :
                         s \in EdgeSources(g, st.schema_id), a \in bound},
                 !.next = IF matched = {} THEN g.next + 1 ELSE g.next]

\* MERGE (m:Meta {name, schema_id, language}) SET m.description
\* WITH m MATCH (s:Schema {id}) MERGE (s)-[:HAS_META]->(m)
ApplyMeta(g, st) ==
    LET matched == MetaMatch(g, st)
        created == [nid |-> g.next, name |-> st.meta_name,
                    schema_id |-> st.schema_id, language |-> st.meta_language,
                    description |-> Null]
        bound == IF matched = {} THEN {created} ELSE matched
        set(m) == [m EXCEPT !.description = st.meta_desc]
    IN [g EXCEPT !.meta = {set(m) : m \in bound} \cup (g.meta \ matched),
                 !.edges = g.edges \cup
                     {Edge(s.nid, "HAS_META", m.nid) :
                         s \in EdgeSources(g, st.schema_id), m \in bound},
                 !.next = IF matched = {} THEN g.next + 1 ELSE g.next]

\* MATCH (s:Schema {id}) SET s.attribute_ordering, s.entry_code_ordering
ApplyOrdering(g, st) ==
    LET matched == SchemaMatch(g, st.schema_id)
        set(s) == [s EXCEPT !.attribute_ordering = st.attribute_ordering,
                            !.entry_code_ordering = st.entry_code_ordering]
    IN [g EXCEPT !.schema = {set(s) : s \in matched} \cup (g.schema \ matched)]

\* session.run(statement): one auto-commit transaction
Apply(g, st) ==
    CASE st.op = "schema" -> ApplySchema(g, st)
      [] st.op = "attribute" -> ApplyAttribute(g, st)
      [] st.op = "meta" -> ApplyMeta(g, st)
      [] st.op = "ordering" -> ApplyOrdering(g, st)

RECURSIVE ApplyFrom(_, _, _, _)
ApplyFrom(g, stmts, i, n) ==
    IF i > n THEN g ELSE ApplyFrom(Apply(g, stmts[i]), stmts, i + 1, n)

\* the first n statements of stmts run in order
ApplyPrefix(g, stmts, n) == ApplyFrom(g, stmts, 1, n)

\* all statements of stmts run in order
ApplySeq(g, stmts) == ApplyPrefix(g, stmts, Len(stmts))

(***************************************************************************)
(* The documents of the model.                                             *)
(***************************************************************************)
\* every overlay present; "ghost" occurs in overlays only; the pair
\* (dob, en) occurs twice in the information overlay
DocFull ==
    [PlainDoc("full", Str("s1"), Str("cb1"),
              <<Attr("dob", "DateTime"), Attr("age", "Numeric")>>) EXCEPT
        !.type = Str("oca_package/2.0"),
        !.unit = MapSection(("age" :> Str("years")) @@ ("ghost" :> Str("kg"))),
        !.information = SeqSection(<<
            Overlay(Str("en"), ("dob" :> "Date of birth") @@ ("ghost" :> "Ghost")),
            Overlay(Str("fr"), ("dob" :> "Date de naissance")),
            Overlay(Str("en"), ("dob" :> "Birth date")) >>),
        !.entry = SeqSection(<< Overlay(Missing, ("age" :> "child|adult")) >>),
        !.entry_code = MapSection(("age" :> <<"c", "a">>) @@ ("dob" :> <<>>)),
        !.format = MapSection(("dob" :> Str("YYYY-MM-DD"))),
        !.meta = SeqSection(<< Meta(Str("name"), Str("Full"), Str("en")),
                               Meta(Str(""), Str("unnamed"), Str("en")),
                               Meta(Null, Null, Missing) >>),
        !.adc = (Str("cb1") :> Ordering(<<"dob", "age">>, ("age" :> <<"a", "c">>)))]

\* overlays == {}; extensions.adc has a key, but not this capture base id
DocPlain ==
    [PlainDoc("plain", Str("s2"), Str("cb2"), <<Attr("dob", "Text")>>) EXCEPT
        !.adc = (Str("cb1") :> Ordering(<<"dob">>, <<>>))]

\* shares dob; has the same meta entry as DocFull; its adc entry exists
\* but carries no ordering; its format overlay is an empty list
DocShare ==
    [PlainDoc("share", Str("s3"), Str("cb3"), <<Attr("dob", "Date")>>) EXCEPT
        !.unit = MapSection(("dob" :> Str("d"))),
        !.format = EmptyListSection,
        !.meta = SeqSection(<< Meta(Str("name"), Str("Share"), Str("en")),
                               Meta(Str("name"), Str("Partage"), Missing),
                               Meta(Str("name"), Str("Share again"), Str("en")) >>),
        !.adc = (Str("cb3") :> Ordering(<<>>, <<>>))]

\* no top-level id and no capture base id
DocNoId ==
    [PlainDoc("noid", Null, Null, <<Attr("dob", "Text")>>) EXCEPT
        !.meta = SeqSection(<< Meta(Str("name"), Str("Anon"), Str("en")) >>)]

\* the file of DocFull after an edit: same id, other content, no ordering
DocRevised ==
    [PlainDoc("full", Str("s1"), Str("cb1"), <<Attr("age", "Text")>>) EXCEPT
        !.meta = SeqSection(<< Meta(Str("name"), Str("Revised"), Str("en")) >>)]

\* capture_base is a string
DocBadCaptureBase ==
    [PlainDoc("badcb", Str("s4"), Null, <<>>) EXCEPT !.capture_base.shape = "str"]

\* DocPlain's content with one section of an unexpected shape
Malformed(file, id) == PlainDoc(file, Str(id), Str("cb2"), <<Attr("dob", "Text")>>)

DocBadUnit == [Malformed("badunit", "s5") EXCEPT !.unit = BadMapSection]

DocBadInformation == [Malformed("badinfo", "s5") EXCEPT !.information = BadSeqSection]

DocBadEntry == [Malformed("badentry", "s5") EXCEPT !.entry = BadSeqSection]

DocBadEntryCode == [Malformed("badcode", "s5") EXCEPT !.entry_code = BadMapSection]

DocBadFormat == [Malformed("badformat", "s5") EXCEPT !.format = BadMapSection]

DocBadAttributes ==
    [Malformed("badattrs", "s6") EXCEPT !.capture_base.attrs_shape = "seq"]

DocBadMeta == [Malformed("badmeta", "s7") EXCEPT !.meta = BadSeqSection]

Docs ==
    {DocFull, DocPlain, DocShare, DocNoId, DocRevised, DocBadCaptureBase,
     DocBadUnit, DocBadInformation, DocBadEntry, DocBadEntryCode, DocBadFormat,
     DocBadAttributes, DocBadMeta}

(***************************************************************************)
(* main(): the batch loop.                                                 *)
(***************************************************************************)
\* files in a batch
MaxFiles == 3

\* graph writes that the store rejects in a batch
MaxWriteFailures == 1

\* no except clause: the exception leaves main()
AfterExceptionUncaught == "aborted"

\* where main() continues after import_oca_package raised:
\* "except Exception as e: print(...)" and the loop goes on
AfterException == "loop"

WriteFailures == Cardinality({i \in DOMAIN results : results[i].cause = "write"})

Result(doc, sid, outcome, cause, stmts, applied) ==
    [doc |-> doc, sid |-> sid, outcome |-> outcome, cause |-> cause,
     stmts |-> stmts, applied |-> applied, before |-> graph]

FoldIdle ==
    /\ fold_kind = "none" /\ fold_in = <<>> /\ fold_i = 0 /\ fold_acc = <<>>

ConcIdle ==
    /\ w_doc = <<>> /\ w_stmts = <<>> /\ w_pc = <<>>
    /\ w_start = EmptyGraph /\ writers = <<>>

Init ==
    /\ graph = EmptyGraph
    /\ uuid_count = 0
    /\ pc = "loop"
    /\ n_files \in 0..MaxFiles
    /\ results = <<>>
    /\ FoldIdle
    /\ ConcIdle

others == <<fold_kind, fold_in, fold_i, fold_acc, w_doc, w_stmts, w_pc, w_start, writers>>

\* import_oca_package(file_path) returns normally
ImportCompletes(doc) ==
    LET fresh == Uuid(uuid_count + 1)
        e == Emit(doc, fresh)
    IN /\ pc = "loop" /\ Len(results) < n_files
       /\ ~e.raised
       /\ graph' = ApplySeq(graph, e.stmts)
       /\ uuid_count' = IF Truthy(doc.d) THEN uuid_count ELSE uuid_count + 1
       /\ results' = Append(results,
              Result(doc, SchemaIdOf(doc, fresh), "ok", "none", e.stmts, Len(e.stmts)))
       /\ UNCHANGED <<pc, n_files>>
       /\ UNCHANGED others

\* import_oca_package raises on the document's shape, after the statements
\* it had issued; main() prints the error
ImportRaises(doc) ==
    LET fresh == Uuid(uuid_count + 1)
        e == Emit(doc, fresh)
    IN /\ pc = "loop" /\ Len(results) < n_files
       /\ e.raised
       /\ graph' = ApplySeq(graph, e.stmts)
       /\ uuid_count' = IF Truthy(doc.d) THEN uuid_count ELSE uuid_count + 1
       /\ results' = Append(results,
              Result(doc, SchemaIdOf(doc, fresh), "failed", "raise", e.stmts, Len(e.stmts)))
       /\ pc' = AfterException
       /\ UNCHANGED n_files
       /\ UNCHANGED others

\* session.run raises on statement k + 1: the first k statements are
\* committed; main() prints the error
ImportWriteFails(doc, k) ==
    LET fresh == Uuid(uuid_count + 1)
        e == Emit(doc, fresh)
    IN /\ pc = "loop" /\ Len(results) < n_files
       /\ WriteFailures < MaxWriteFailures
       /\ k < Len(e.stmts)
       /\ graph' = ApplyPrefix(graph, e.stmts, k)
       /\ uuid_count' = IF Truthy(doc.d) THEN uuid_count ELSE uuid_count + 1
       /\ results' = Append(results,
              Result(doc, SchemaIdOf(doc, fresh), "failed", "write", e.stmts, k))
       /\ pc' = AfterException
       /\ UNCHANGED n_files
       /\ UNCHANGED others

\* the loop is over (or the folder held no file): driver.close()
MainDone ==
    /\ pc = "loop" /\ Len(results) = n_files
    /\ pc' = "done"
    /\ UNCHANGED <<graph, uuid_count, n_files, results>>
    /\ UNCHANGED others

\* a batch against a store that accepts every write
Next ==
    \/ \E doc \in Docs : ImportCompletes(doc)
    \/ \E doc \in Docs : ImportRaises(doc)
    \/ MainDone

Spec == Init /\ [][Next]_vars

\* the documents whose import raises nothing of its own
WellFormedDocs == {doc \in Docs : ~Emit(doc, Null).raised}

\* a batch of well-formed documents against a store that may reject a write
NextWrite ==
    \/ \E doc \in WellFormedDocs : ImportCompletes(doc)
    \/ \E doc \in WellFormedDocs :
          \E k \in 0..Len(Emit(doc, Null).stmts) : ImportWriteFails(doc, k)
    \/ MainDone

SpecWrite == Init /\ [][NextWrite]_vars

(***************************************************************************)
(* Properties of the batch.                                                *)
(***************************************************************************)
Last == Len(results)

\* the graph right after the i-th file of the batch was processed
After(i) == IF i = Last THEN graph ELSE results[i + 1].before

HasId(doc) == Truthy(doc.d)

AttrNamesOf(doc) ==
    {doc.capture_base.attributes[i].name : i \in DOMAIN doc.capture_base.attributes}

IsAttributeStmt(st) == st.op = "attribute"

IsOrderingStmt(st) == st.op = "ordering"

\* the graph after the next call of import_oca_package, on doc
ImportOnce(g, doc) == ApplySeq(g, Emit(doc, Uuid(uuid_count + 1)).stmts)

\* the graph after one more call on doc, from the graph once of the first
ImportAgain(once, doc) == ApplySeq(once, Emit(doc, Uuid(uuid_count + 2)).stmts)

\* C1: for every document with a top-level id and from every graph the
\* batch can reach, applying the document's emitted upsert sequence twice
\* gives the same nodes, edges and properties as applying it once; and in
\* the batch itself, a completed import of a document that directly
\* follows a completed import of the same document leaves the graph as
\* it was.
C1_Idempotent ==
    /\ \A doc \in Docs :
          HasId(doc) => LET once == ImportOnce(graph, doc)
                        IN ImportAgain(once, doc) = once
    /\ \A i \in 2..Last :
          ( /\ results[i].doc = results[i - 1].doc
            /\ HasId(results[i].doc)
            /\ results[i].outcome = "ok" /\ results[i - 1].outcome = "ok" )
          => After(i) = results[i].before

C1_Witness ==
    /\ Last >= 3
    /\ results[Last].doc = DocFull /\ results[Last].outcome = "ok"
    /\ results[Last - 1].doc = DocFull /\ results[Last - 1].outcome = "ok"
    /\ results[Last - 2].doc = DocShare /\ results[Last - 2].outcome = "ok"

SchemaNodes(id) == {s \in graph.schema : s.id = id}

\* C2: the graph never holds two Attribute nodes of one name, and when two
\* completed imports with different schema ids both list an attribute name
\* in captureBase.attributes, the Attribute node of that name has a
\* HAS_ATTRIBUTE edge from the Schema node of each.
C2_AttributeShared ==
    /\ \A a, b \in graph.attribute : a.name = b.name => a = b
    /\ \A i, j \in DOMAIN results :
          ( /\ results[i].outcome = "ok" /\ results[j].outcome = "ok"
            /\ results[i].sid # results[j].sid )
          => \A name \in AttrNamesOf(results[i].doc) \cap AttrNamesOf(results[j].doc) :
                \E a \in graph.attribute :
                   /\ a.name = name
                   /\ \E s \in SchemaNodes(results[i].sid) :
                         Edge(s.nid, "HAS_ATTRIBUTE", a.nid) \in graph.edges
                   /\ \E s \in SchemaNodes(results[j].sid) :
                         Edge(s.nid, "HAS_ATTRIBUTE", a.nid) \in graph.edges

C2_Witness ==
    /\ \E i, j \in DOMAIN results :
          /\ results[i].doc = DocFull /\ results[i].outcome = "ok"
          /\ results[j].doc = DocNoId /\ results[j].outcome = "ok"
    /\ Cardinality({e \in graph.edges : e.type = "HAS_ATTRIBUTE"}) >= 3

\* C3: an import that raises never stops the batch: when main() has left
\* the loop every file of the batch was processed; a file is reported as
\* failed exactly when its own import raised,
\* and every other file, before or after a failing one, had its full
\* upsert sequence applied to the graph.
C3_BatchIsolation ==
    /\ pc # "loop" => Last = n_files
    /\ \A i \in DOMAIN results :
          LET r == results[i]
              e == Emit(r.doc, r.sid)
          IN /\ (r.outcome = "failed") <=> e.raised
             /\ r.outcome = "ok" =>
                   /\ r.applied = Len(e.stmts)
                   /\ After(i) = ApplySeq(r.before, e.stmts)

C3_Witness ==
    /\ pc = "done" /\ Last = 3
    /\ results[1].doc = DocFull /\ results[1].outcome = "ok"
    /\ results[2].doc = DocBadCaptureBase /\ results[2].outcome = "failed"
    /\ results[3].doc = DocShare /\ results[3].outcome = "ok"
    /\ Cardinality(graph.schema) = 2

MetaKeys(doc) ==
    LET kept == SelectSeq(SeqOverlay(doc.meta), MetaKept)
    IN {<<kept[i].name, GetOr(kept[i].language, Str("unknown"))>> : i \in DOMAIN kept}

MetaNodes(name, sid, language) ==
    {m \in graph.meta : m.name = name /\ m.schema_id = sid /\ m.language = language}

MetaSources(m) ==
    {s \in graph.schema : Edge(s.nid, "HAS_META", m.nid) \in graph.edges}

\* C4: a Meta node is identified by (name, schema id, language): when two
\* completed imports with different schema ids declare a meta entry of
\* the same name and language, each has exactly one Meta node of its own,
\* the two nodes differ, and each has a HAS_META edge from its own Schema
\* node and from no other; no Meta node has an empty or missing name.
C4_MetaScoped ==
    /\ \A m \in graph.meta : Truthy(m.name)
    /\ \A m \in graph.meta : \A s \in MetaSources(m) : s.id = m.schema_id
    /\ \A i, j \in DOMAIN results :
          ( /\ results[i].outcome = "ok" /\ results[j].outcome = "ok"
            /\ results[i].sid # results[j].sid )
          => \A k \in MetaKeys(results[i].doc) \cap MetaKeys(results[j].doc) :
                LET mi == MetaNodes(k[1], results[i].sid, k[2])
                    mj == MetaNodes(k[1], results[j].sid, k[2])
                IN /\ Cardinality(mi) = 1 /\ Cardinality(mj) = 1
                   /\ mi \cap mj = {}
                   /\ \A m \in mi : MetaSources(m) = SchemaNodes(results[i].sid)
                   /\ \A m \in mj : MetaSources(m) = SchemaNodes(results[j].sid)
                   /\ SchemaNodes(results[i].sid) # {}
                   /\ SchemaNodes(results[j].sid) # {}

C4_Witness ==
    /\ \E i, j \in DOMAIN results :
          /\ results[i].doc = DocFull /\ results[i].outcome = "ok"
          /\ results[j].doc = DocShare /\ results[j].outcome = "ok"
    /\ Cardinality({m \in graph.meta : m.name = Str("name") /\ m.language = Str("en")}) = 2

\* the attribute name occurs in no entry of a language-tagged overlay
Unmentioned(ov, name) ==
    \A k \in DOMAIN SeqOverlay(ov) : name \notin DOMAIN SeqOverlay(ov)[k].attrs

\* the attribute name has no entry in a mapping overlay
Unmapped(ov, name) == ov.shape # "map" \/ name \notin DOMAIN ov.val

\* C6: a completed import emits exactly one Attribute upsert per attribute
\* name of captureBase.attributes, in document order, and none for a name
\* that occurs in overlays only; an attribute without data in an overlay
\* is still upserted, with the property of that overlay null.
C6_AttributesFromCaptureBase ==
    \A i \in DOMAIN results :
       results[i].outcome = "ok" =>
          LET doc == results[i].doc
              attrs == doc.capture_base.attributes
              ups == SelectSeq(results[i].stmts, IsAttributeStmt)
          IN /\ Len(ups) = Len(attrs)
             /\ \A k \in DOMAIN ups :
                   /\ ups[k].attr_name = attrs[k].name
                   /\ Unmapped(doc.unit, attrs[k].name) => ups[k].attr_unit = Null
                   /\ Unmentioned(doc.information, attrs[k].name)
                         => ups[k].attr_description = Null
                   /\ Unmapped(doc.format, attrs[k].name) => ups[k].attr_format = Null
                   /\ Unmentioned(doc.entry, attrs[k].name)
                         => ups[k].attr_vocabulary = Null
                   /\ Unmapped(doc.entry_code, attrs[k].name) => ups[k].attr_codes = Null

C6_Witness ==
    /\ \E i \in DOMAIN results : results[i].doc = DocPlain /\ results[i].outcome = "ok"
    /\ \E i \in DOMAIN results : results[i].doc = DocFull /\ results[i].outcome = "ok"
    /\ \E a \in graph.attribute :
          a.name = "dob" /\ a.unit = Null /\ a.description = Null /\ a.codes = Null
    /\ \A a \in graph.attribute : a.name # "ghost"

\* the ordering data of a document is empty: extensions.adc has no key
\* equal to the capture base id, or the entry of that id carries neither
\* an attribute ordering nor an entry-code ordering
OrderingEmpty(doc) ==
    LET cbid == doc.capture_base.d
    IN \/ cbid \notin DOMAIN doc.adc
       \/ /\ Len(doc.adc[cbid].attribute_ordering) = 0
          /\ DOMAIN doc.adc[cbid].entry_code_ordering = {}

\* C7: a completed import of a document whose ordering data is empty
\* issues no update of attributeOrdering / entryCodeOrdering.
C7_OrderingOnlyIfNonEmpty ==
    \A i \in DOMAIN results :
       (results[i].outcome = "ok" /\ OrderingEmpty(results[i].doc))
       => SelectSeq(results[i].stmts, IsOrderingStmt) = <<>>

\* the overlay sections of a document that have an unexpected shape: a
\* non-empty list for a mapping, a sequence of strings for one of mappings
MalformedOverlays(doc) ==
    {n \in {"unit", "entry_code", "format"} : doc[n].shape = "list"}
    \cup {n \in {"information", "entry", "meta"} : doc[n].shape = "scalars"}

\* the document with its malformed overlay sections taken as empty
Recovered(doc) ==
    [f \in DOMAIN doc |->
        IF f \in MalformedOverlays(doc) THEN NoSection ELSE doc[f]]

\* C8: a document with an overlay section of an unexpected shape is
\* imported as if that section were empty: the import completes and emits
\* the upserts of the remaining sections.
C8_MalformedOverlayIsEmpty ==
    \A i \in DOMAIN results :
       LET doc == results[i].doc
       IN ( /\ MalformedOverlays(doc) # {}
            /\ doc.capture_base.shape = "map"
            /\ doc.capture_base.attrs_shape = "map" )
          => /\ results[i].outcome = "ok"
             /\ results[i].stmts = Emit(Recovered(doc), results[i].sid).stmts

\* C9: when an import of a document with a top-level id stops at a failed
\* write, and the next import is of the same document and completes, the
\* graph after it is the graph one failure-free import of the document
\* gives from the graph the failed import started in.
C9_RetryAfterPartialFailure ==
    \A i \in 2..Last :
       ( /\ results[i - 1].cause = "write"
         /\ results[i].doc = results[i - 1].doc
         /\ results[i].outcome = "ok"
         /\ HasId(results[i].doc) )
       => After(i) = ApplySeq(results[i - 1].before, results[i].stmts)

C9_Witness ==
    /\ Last = 3
    /\ results[1].doc = DocShare /\ results[1].outcome = "ok"
    /\ results[2].doc = DocFull /\ results[2].cause = "write" /\ results[2].applied = 3
    /\ results[3].doc = DocFull /\ results[3].outcome = "ok"
    /\ Cardinality(graph.meta) = 3

(***************************************************************************)
(* The folding loops of lines 69-85 on their own, one iteration a step.    *)
(***************************************************************************)
\* entries in an information or entry overlay
MaxOverlayEntries == 2

FoldNames == {"dob", "age"}

FoldLanguages == {Str("en"), Str("unknown"), Missing}

\* descriptions of the information overlay, entries of the entry overlay
FoldValues(kind) ==
    IF kind = "information" THEN {"first text", "second text"}
    ELSE {<<"a">>, <<"a", "b">>}

PartialMaps(names, values) == UNION {[S -> values] : S \in SUBSET names}

OverlayEntries(kind) ==
    {Overlay(l, m) : l \in FoldLanguages, m \in PartialMaps(FoldNames, FoldValues(kind))}

OverlaySeqs(kind) ==
    UNION {[1..n -> OverlayEntries(kind)] : n \in 0..MaxOverlayEntries}

MainIdle ==
    /\ graph = EmptyGraph /\ uuid_count = 0 /\ n_files = 0 /\ results = <<>>

InitFold ==
    /\ pc = "fold"
    /\ fold_kind \in {"information", "entry"}
    /\ fold_in \in OverlaySeqs(fold_kind)
    /\ fold_i = 0
    /\ fold_acc = <<>>
    /\ MainIdle
    /\ ConcIdle

\* for info in information_overlays: ... (for entry in entry_overlays: ...)
FoldIterate ==
    /\ pc = "fold"
    /\ fold_i < Len(fold_in)
    /\ fold_acc' = FoldStep(fold_acc, fold_in[fold_i + 1])
    /\ fold_i' = fold_i + 1
    /\ UNCHANGED <<pc, fold_kind, fold_in>>
    /\ UNCHANGED <<graph, uuid_count, n_files, results>>
    /\ UNCHANGED <<w_doc, w_stmts, w_pc, w_start, writers>>

NextFold == FoldIterate

SpecFold == InitFold /\ [][NextFold]_vars

\* the language an overlay entry counts for
LanguageOf(entry) == IF entry.language = Missing THEN Str("unknown") ELSE entry.language

\* the folded entries that mention attribute a in language l
Mentioning(a, l) ==
    {i \in 1..fold_i : a \in DOMAIN fold_in[i].attrs /\ LanguageOf(fold_in[i]) = l}

LastOf(S) == CHOOSE i \in S : \A j \in S : j <= i

\* C5: after any number of folded overlay entries, an attribute has a
\* mapping exactly when an entry mentions it, the mapping's languages are
\* exactly the languages of the entries mentioning the attribute (an entry
\* without a language counts for "unknown"), and the value of a language
\* is that of the last entry, in document order, for the pair.
C5_FoldLastWins ==
    pc = "fold" =>
       /\ DOMAIN fold_acc =
             {a \in FoldNames : \E i \in 1..fold_i : a \in DOMAIN fold_in[i].attrs}
       /\ \A a \in DOMAIN fold_acc :
             /\ DOMAIN fold_acc[a] =
                   {LanguageOf(fold_in[i]) : i \in {k \in 1..fold_i : a \in DOMAIN fold_in[k].attrs}}
             /\ \A l \in DOMAIN fold_acc[a] :
                   fold_acc[a][l] = fold_in[LastOf(Mentioning(a, l))].attrs[a]

C5_Witness ==
    /\ pc = "fold" /\ fold_kind = "information"
    /\ fold_i = 2 /\ Len(fold_in) = 2
    /\ fold_in[1].language = Str("unknown") /\ fold_in[2].language = Missing
    /\ "dob" \in DOMAIN fold_in[1].attrs /\ "dob" \in DOMAIN fold_in[2].attrs
    /\ fold_in[1].attrs["dob"] # fold_in[2].attrs["dob"]
    /\ "age" \in DOMAIN fold_in[1].attrs /\ "age" \notin DOMAIN fold_in[2].attrs
    /\ fold_acc["dob"][Str("unknown")] = fold_in[2].attrs["dob"]

(***************************************************************************)
(* Two imports at once: each worker runs the statements of its own         *)
(* document in order, one statement (one auto-commit transaction) a step.  *)
(***************************************************************************)
Workers == {1, 2}

\* the graphs a concurrent import may start from: empty, or one document in
StartDocs == {<<>>} \cup {<<doc>> : doc \in Docs}

NoIdCount(docs) == Cardinality({i \in DOMAIN docs : ~HasId(docs[i])})

RECURSIVE ImportAll(_, _, _, _)
\* import_oca_package on docs[i], docs[i + 1], ... one after the other
ImportAll(g, docs, i, drawn) ==
    IF i > Len(docs) THEN g
    ELSE ImportAll(ApplySeq(g, Emit(docs[i], Uuid(drawn + 1)).stmts), docs, i + 1,
                   IF HasId(docs[i]) THEN drawn ELSE drawn + 1)

\* the nodes a statement binds and sets, by internal id, in the graph after it
NodesWritten(g, st) ==
    CASE st.op = "schema" -> {s.nid : s \in SchemaMatch(g, st.schema_id)}
      [] st.op = "attribute" -> {a.nid : a \in AttributeMatch(g, st.attr_name)}
      [] st.op = "meta" -> {m.nid : m \in MetaMatch(g, st)}
      [] st.op = "ordering" -> {s.nid : s \in SchemaMatch(g, st.schema_id)}

\* the edges a statement merges, in the graph after it
EdgesWritten(g, st) ==
    LET from == {s.nid : s \in EdgeSources(g, st.schema_id)}
    IN CASE st.op = "attribute" ->
              {e \in g.edges : /\ e.type = "HAS_ATTRIBUTE" /\ e.from \in from
                               /\ e.to \in NodesWritten(g, st)}
         [] st.op = "meta" ->
              {e \in g.edges : /\ e.type = "HAS_META" /\ e.from \in from
                               /\ e.to \in NodesWritten(g, st)}
         [] OTHER -> {}

InitConc ==
    /\ pc = "conc"
    /\ \E pre \in StartDocs :
          /\ w_start = ImportAll(EmptyGraph, pre, 1, 0)
          /\ uuid_count = NoIdCount(pre) + 2
          /\ \E d1, d2 \in Docs :
                /\ SchemaIdOf(d1, Uuid(NoIdCount(pre) + 1))
                      # SchemaIdOf(d2, Uuid(NoIdCount(pre) + 2))
                /\ w_doc = <<d1, d2>>
                /\ w_stmts = <<Emit(d1, Uuid(NoIdCount(pre) + 1)).stmts,
                               Emit(d2, Uuid(NoIdCount(pre) + 2)).stmts>>
    /\ graph = w_start
    /\ w_pc = <<0, 0>>
    /\ writers = [nodes |-> {}, edges |-> {}]
    /\ n_files = 0 /\ results = <<>>
    /\ FoldIdle

\* worker w runs its next session.run
WorkerStep(w) ==
    /\ pc = "conc"
    /\ w_pc[w] < Len(w_stmts[w])
    /\ LET st == w_stmts[w][w_pc[w] + 1]
           g == Apply(graph, st)
       IN /\ graph' = g
          /\ writers' =
                [nodes |-> writers.nodes \cup {<<w, n>> : n \in NodesWritten(g, st)},
                 edges |-> writers.edges \cup {<<w, e>> : e \in EdgesWritten(g, st)}]
    /\ w_pc' = [w_pc EXCEPT ![w] = w_pc[w] + 1]
    /\ UNCHANGED <<pc, w_doc, w_stmts, w_start, uuid_count, n_files, results>>
    /\ UNCHANGED <<fold_kind, fold_in, fold_i, fold_acc>>

NextConc == \E w \in Workers : WorkerStep(w)

SpecConc == InitConc /\ [][NextConc]_vars

\* the nodes and edges of a graph without internal ids: a Schema or Meta
\* node with its properties, an Attribute node by its name only (its other
\* properties are those of the document that wrote it last), an edge by its
\* type and the identities of its ends; with the number of nodes of each
\* label, so that two nodes of one identity are not one
View(g) ==
    LET schemaOf(n) == CHOOSE s \in g.schema : s.nid = n
        attrOf(n) == CHOOSE a \in g.attribute : a.nid = n
        metaOf(n) == CHOOSE m \in g.meta : m.nid = n
        metaKey(m) == <<m.name, m.schema_id, m.language>>
    IN [schema |-> {[s EXCEPT !.nid = 0] : s \in g.schema},
        attribute |-> {a.name : a \in g.attribute},
        meta |-> {[m EXCEPT !.nid = 0] : m \in g.meta},
        has_attribute |-> {<<schemaOf(e.from).id, attrOf(e.to).name>> :
                              e \in {x \in g.edges : x.type = "HAS_ATTRIBUTE"}},
        has_meta |-> {<<schemaOf(e.from).id, metaKey(metaOf(e.to))>> :
                         e \in {x \in g.edges : x.type = "HAS_META"}},
        count |-> <<Cardinality(g.schema), Cardinality(g.attribute),
                    Cardinality(g.meta), Cardinality(g.edges)>>]

WrittenBy(w) == {x[2] : x \in {y \in writers.nodes : y[1] = w}}

EdgesWrittenBy(w) == {x[2] : x \in {y \in writers.edges : y[1] = w}}

ConcDone == pc = "conc" /\ \A w \in Workers : w_pc[w] = Len(w_stmts[w])

\* C10: in every interleaving of the statements of two documents with
\* different schema ids, a node written by both documents is an Attribute
\* node whose name is in captureBase.attributes of both, no edge (and so
\* no Schema or Meta node) is written by both, and when both are done the
\* Schema and Meta nodes with their properties, the Attribute nodes by
\* name and the edges are those of importing the two documents one after
\* the other, in either order.
C10_ConcurrentImports ==
    pc = "conc" =>
       /\ \A n \in WrittenBy(1) \cap WrittenBy(2) :
             \E a \in graph.attribute :
                /\ a.nid = n
                /\ a.name \in AttrNamesOf(w_doc[1]) \cap AttrNamesOf(w_doc[2])
       /\ EdgesWrittenBy(1) \cap EdgesWrittenBy(2) = {}
       /\ ConcDone =>
             /\ View(graph) = View(ApplySeq(ApplySeq(w_start, w_stmts[1]), w_stmts[2]))
             /\ View(graph) = View(ApplySeq(ApplySeq(w_start, w_stmts[2]), w_stmts[1]))

C10_Witness ==
    /\ ConcDone
    /\ w_doc = <<DocFull, DocShare>>
    /\ WrittenBy(1) \cap WrittenBy(2) # {}
    /\ \E a \in graph.attribute : a.name = "dob" /\ a.type = Str("DateTime")
    /\ w_start # EmptyGraph

====
